---- MODULE Spec2Model ----
(***************************************************************************)
(* Verification model of the cli-top AI data layer.                        *)
(*                                                                         *)
(*   SpecAgg   features/ai-data-builder.go: BuildAIData and its five       *)
(*             collectors, one collector call per step.                    *)
(*   SpecCli   the CLI commands GetMarks and GetAttendance.                *)
(*   SpecConc  the export and a command run at once on one session.        *)
(*   SpecLogin cmd (part_005): the login command and the stored session.   *)
(*   SpecGate  the pacing/cache gate (vtop_data_manager.py, described in   *)
(*             the repository's documentation only).                       *)
(*                                                                         *)
(* Semesters are numbered 1..nSems in the order GetSemDetails returns them *)
(* (oldest first), so the newest semester is nSems.                        *)
(***************************************************************************)
EXTENDS Integers, Sequences, FiniteSets, TLC

VARIABLES
    regNo,          \* BuildAIData / command argument regNo
    cookiesValid,   \* helpers.ValidateLogin(cookies); cookies are passed by value
    debug,          \* debug.Debug
    nSems,          \* len(allSems) the portal knows for this identity
    attHas,         \* portal: semesters whose attendance report has rows
    pc,             \* position of BuildAIData
    data,           \* var data types.VTOPAIData
    errors,         \* var errors []string
    retErr,         \* the error BuildAIData returns
    calls,          \* collector calls made so far: kind, whether it failed, its value
    fetchLog,       \* helpers.FetchReq calls issued by the aggregator: kind, semester
    examLog,        \* collectAIExams: what each iteration of the loop saw
    attLog,         \* collectAIAttendance: the page its fetch returned
    marksLog,       \* collectAIMarks: the page its fetch returned
    cliPc,          \* position of the running CLI command
    cliI,           \* loop variable i of GetAttendance
    cliLog,         \* helpers.FetchReq calls issued by the CLI command
    attendanceList, \* var attendanceList [][]string of GetAttendance
    found,          \* var found of GetAttendance
    output,         \* lines the CLI command printed
    store,          \* cli-top-config.env: the stored credentials and session
    loginCalls,     \* login command: the login.Login calls of the current run
    loginRuns,      \* login command: how often it has been run
    writeLog,       \* login command: the viper.WriteConfigAs calls of the current run
    argAttended,    \* calculateAttendance: argument attended
    argTotal,       \* calculateAttendance: argument total
    argClasstype,   \* calculateAttendance: argument classtype
    alert,          \* calculateAttendance: the alert it returned
    webPc,          \* web page: "off", "load" (before DOMContentLoaded) or "ready"
    systemReady,    \* web page: let systemReady
    statusPc,       \* web page: checkSystemStatus: "idle", "pending", "done" or "failed"
    statusResp,     \* web page: the answers of /status received, at most one
    wizard,         \* web page: the setup wizard and its steps
    genPending,     \* web page: calls of generateAIContext waiting for their answer
    contextResult,  \* web page: how the last generateAIContext ended
    selecting,      \* web page: the semester selector that is open, at most one
    subjectBtns,    \* web page: the subject buttons of the study guide
    requests,       \* web page: the feature requests sent
    now,            \* wall clock, in seconds
    cache,          \* gate: the memoized document (single slot)
    lastRequest,    \* gate: time of the last upstream request
    lock,           \* gate: the caller holding the gate
    gpc,            \* gate: position of each caller
    greq,           \* gate: the request each caller is executing
    batches,        \* gate: start times of the upstream aggregation passes
    served          \* gate: the documents returned to callers

aggVars  == <<pc, data, errors, retErr, calls, fetchLog, examLog, attLog, marksLog>>
cliVars  == <<cliPc, cliI, cliLog, attendanceList, found, output>>
gateVars == <<now, cache, lastRequest, lock, gpc, greq, batches, served>>
loginVars == <<store, loginCalls, loginRuns, writeLog>>
calcVars  == <<argAttended, argTotal, argClasstype, alert>>
portalVars == <<regNo, cookiesValid, debug, nSems, attHas>>
webVars  == <<webPc, systemReady, statusPc, statusResp, wizard, genPending, contextResult,
              selecting, subjectBtns, requests>>
envVars  == <<portalVars, loginVars, calcVars, webVars>>
vars     == <<envVars, aggVars, cliVars, gateVars>>

----------------------------------------------------------------------------
(* Bounds *)

MaxSems     == 3
MaxExamRows == 1

RegNos == {"21BCE0001"}
Nil    == "nil"

Kinds == <<"marks", "attendance", "exams", "timetable", "cgpa">>

----------------------------------------------------------------------------
(* Generic helpers *)

RECURSIVE SeqsUpTo(_, _)
SeqsUpTo(S, n) ==
    IF n = 0 THEN {<<>>}
    ELSE LET shorter == SeqsUpTo(S, n - 1)
         IN  shorter \cup {Append(s, x) : s \in {t \in shorter : Len(t) = n - 1}, x \in S}

Range(s) == {s[i] : i \in 1..Len(s)}

----------------------------------------------------------------------------
(* The portal and the helpers package (helpers.* is called, not defined,   *)
(* by the sources at hand).                                                *)

\* A page without any of the tables the extractors look for: the body of a
\* nil response and the portal's "session expired, please login" page.
EmptyPage == [courses |-> <<>>, tables |-> <<>>, hasTable |-> FALSE, rows |-> <<>>]

\* What the portal answers to one request.
Responses(docs) ==
    {[cls |-> "Transport", doc |-> EmptyPage], [cls |-> "Expired", doc |-> EmptyPage]}
        \cup {[cls |-> "Ok", doc |-> d] : d \in docs}

\* helpers.FetchReq: (bodyText, err). A transport failure is an error; an
\* expired session is an HTTP 200 login page, returned as a body.
FetchReq(resp) ==
    IF resp.cls = "Transport"
    THEN [body |-> EmptyPage, err |-> "transport error"]
    ELSE [body |-> resp.doc, err |-> Nil]

\* helpers.ValidateLogin: a local check of the cookie set.
ValidateLogin == cookiesValid

\* helpers.GetSemDetails: the identity's semesters, oldest first.
GetSemDetails(ok) ==
    IF ok THEN [sems |-> [i \in 1..nSems |-> i], err |-> Nil]
    ELSE [sems |-> <<>>, err |-> "semester list unavailable"]

\* helpers.SelectSemester(regNo, cookies, semChoice): the semester the choice
\* resolves to, or an error. Latest is the choice 5, "5 = latest semester".
Latest == nSems

SelectSemester(ok, pick) ==
    IF ok /\ pick \in 1..nSems THEN [SemID |-> pick, err |-> Nil]
    ELSE [SemID |-> 0, err |-> "semester selection failed"]

----------------------------------------------------------------------------
(* Cell conversions. Numbers are kept in tenths.                           *)

\* strconv.ParseFloat(s, 64)
ParseFloat(s) ==
    CASE s = "10"  -> [ok |-> TRUE, v |-> 100]
      [] s = "2.5" -> [ok |-> TRUE, v |-> 25]
      [] s = "7.5" -> [ok |-> TRUE, v |-> 75]
      [] OTHER     -> [ok |-> FALSE, v |-> 0]

\* strconv.Atoi(s)
Atoi(s) ==
    CASE s = "10" -> [ok |-> TRUE, v |-> 10]
      [] OTHER    -> [ok |-> FALSE, v |-> 0]

\* fmt.Sscanf(s, "%f", &x) on a zero x: x stays 0 when nothing scans.
SscanfFloat(s) == IF ParseFloat(s).ok THEN ParseFloat(s).v ELSE 0

----------------------------------------------------------------------------
(* Marks extraction *)

MarkRow(first, weightage, weightageMark) ==
    [first |-> first, title |-> "CAT-1", maxMark |-> "10", weightage |-> weightage,
     status |-> "Present", scoredMark |-> "7.5", weightageMark |-> weightageMark]

\* features.ExtractMarks: the rows of one component table and the two sums.
RECURSIVE ExtractMarksFrom(_, _)
ExtractMarksFrom(rows, acc) ==
    IF rows = <<>> THEN acc
    ELSE LET r == Head(rows)
             skip == r.first \in {"Sl.No.", "Index", ""}
             wm == ParseFloat(r.weightageMark)
             w  == Atoi(r.weightage)
         IN  ExtractMarksFrom(Tail(rows),
                IF skip THEN acc
                ELSE [SingleSubTable |-> Append(acc.SingleSubTable,
                          <<r.title, r.maxMark, r.weightage, r.status,
                            r.scoredMark, r.weightageMark>>),
                      weightageMarkSum |-> acc.weightageMarkSum + (IF wm.ok THEN wm.v ELSE 0),
                      maxSubjectMarksSum |-> acc.maxSubjectMarksSum + (IF w.ok THEN w.v ELSE 0)])

ExtractMarks(element) ==
    ExtractMarksFrom(element,
        [SingleSubTable |-> <<>>, weightageMarkSum |-> 0, maxSubjectMarksSum |-> 0])

\* collectAIMarks, lines 117-133: one table row to one component.
ToComponent(row) ==
    [Title |-> row[1], Status |-> row[4],
     MaxMarks |-> SscanfFloat(row[2]), Weightage |-> SscanfFloat(row[3]),
     ScoredMarks |-> SscanfFloat(row[5]), WeightageMark |-> SscanfFloat(row[6])]

\* lines 104-149 with a course left out when it has no components
RECURSIVE MarksSummariesSkipsEmpty(_, _, _)
MarksSummariesSkipsEmpty(courseDetails, elements, idx) ==
    IF idx > Len(courseDetails) THEN <<>>
    ELSE IF idx > Len(elements) THEN MarksSummariesSkipsEmpty(courseDetails, elements, idx + 1)
    ELSE LET ex == ExtractMarks(elements[idx])
             summary == [CourseCode  |-> courseDetails[idx],
                         Components  |-> [k \in 1..Len(ex.SingleSubTable) |->
                                             ToComponent(ex.SingleSubTable[k])],
                         TotalScored |-> ex.weightageMarkSum,
                         TotalWeight |-> 10 * ex.maxSubjectMarksSum]
         IN  (IF Len(ex.SingleSubTable) = 0 THEN <<>> ELSE <<summary>>)
                 \o MarksSummariesSkipsEmpty(courseDetails, elements, idx + 1)

\* collectAIMarks, lines 104-149: the summaries of a marks page.
RECURSIVE MarksSummaries(_, _, _)
MarksSummaries(courseDetails, elements, idx) ==
    IF idx > Len(courseDetails) THEN <<>>
    ELSE IF idx > Len(elements) THEN MarksSummaries(courseDetails, elements, idx + 1)
    ELSE LET ex == ExtractMarks(elements[idx])
             summary == [CourseCode  |-> courseDetails[idx],
                         Components  |-> [k \in 1..Len(ex.SingleSubTable) |->
                                             ToComponent(ex.SingleSubTable[k])],
                         TotalScored |-> ex.weightageMarkSum,
                         TotalWeight |-> 10 * ex.maxSubjectMarksSum]
         IN  <<summary>> \o MarksSummaries(courseDetails, elements, idx + 1)

\* Marks pages the aggregator is run against.
MarksDocs ==
    { EmptyPage,
      [EmptyPage EXCEPT !.courses = <<"CSE1001">>,
                        !.tables = << <<MarkRow("Sl.No.", "", ""),
                                        MarkRow("1", "10", "7.5"),
                                        MarkRow("2", "2.5", "2.5")>> >>],
      [EmptyPage EXCEPT !.courses = <<"CSE1001", "CSE1002">>,
                        !.tables = << <<MarkRow("Sl.No.", "", "")>>,
                                      <<MarkRow("Sl.No.", "", ""),
                                        MarkRow("1", "10", "7.5")>> >>] }

----------------------------------------------------------------------------
(* Attendance, exams, timetable and grade history pages *)

\* The course the portal lists under semester s: semesters have different courses.
CourseOf(s) == "CSE" \o ToString(s)

\* Which semesters have attendance rows on the portal: none, all, only the
\* oldest, only the newest.
AttendancePatterns(n) ==
    {[s \in 1..n |-> FALSE], [s \in 1..n |-> TRUE], [s \in 1..n |-> s = 1], [s \in 1..n |-> s = n]}

\* The attendance report of semester s (table#attendanceTableId); the
\* second row has an empty attended cell and an empty percentage cell.
AttendanceDoc(s) ==
    [EmptyPage EXCEPT !.hasTable = TRUE,
        !.rows = IF attHas[s]
                 THEN << <<"1", CourseOf(s), "Course", "Theory", "Faculty", "10", "10", "7.5">>,
                         <<"2", CourseOf(s), "Course", "Lab", "Faculty", "", "10", "">> >>
                 ELSE <<>>]

\* collectAIAttendance, lines 185-209: one record per usable row.
RECURSIVE AttendanceRecords(_)
AttendanceRecords(rows) ==
    IF rows = <<>> THEN <<>>
    ELSE LET cells == Head(rows)
             rest  == AttendanceRecords(Tail(rows))
         IN  IF Len(cells) < 8 THEN rest
             ELSE IF cells[2] = "" \/ cells[2] = "Course Code" THEN rest
             ELSE <<[CourseCode |-> cells[2], CourseName |-> cells[3],
                     CourseType |-> cells[4], Faculty |-> cells[5],
                     Attended |-> (IF Atoi(cells[6]).ok THEN Atoi(cells[6]).v ELSE 0),
                     Total |-> (IF Atoi(cells[7]).ok THEN Atoi(cells[7]).v ELSE 0),
                     Percentage |-> SscanfFloat(cells[8])]>> \o rest

\* The exam schedule page of semester s with n rows.
ExamDoc(s, n) ==
    [EmptyPage EXCEPT !.hasTable = n > 0,
                      !.rows = [k \in 1..n |-> [CourseCode |-> CourseOf(s), Slot |-> k]]]

\* parseExamSchedule (called by collectAIExams): the events of a page.
parseExamSchedule(doc, parseOk) ==
    IF parseOk THEN [exams |-> doc.rows, err |-> Nil]
    ELSE [exams |-> <<>>, err |-> "exam schedule not parsed"]

days == <<"Monday", "Tuesday", "Wednesday", "Thursday", "Friday", "Saturday", "Sunday">>

TimetableDocs ==
    { EmptyPage,
      [EmptyPage EXCEPT !.hasTable = TRUE, !.rows = << <<"MON", "CSE1001", "-", "">> >>] }

\* collectAITimetable, lines 293-314: the entries of one row.
RECURSIVE TimetableCells(_, _, _)
TimetableCells(cells, colIdx, day) ==
    IF colIdx > Len(cells) THEN <<>>
    ELSE LET rest == TimetableCells(cells, colIdx + 1, day)
         IN  IF colIdx = 1 THEN rest
             ELSE IF cells[colIdx] = "" \/ cells[colIdx] = "-" THEN rest
             ELSE <<[Day |-> day, Course |-> cells[colIdx]]>> \o rest

\* collectAITimetable, lines 287-315.
RECURSIVE TimetableEntries(_, _)
TimetableEntries(rows, rowIdx) ==
    IF rowIdx > Len(rows) THEN <<>>
    ELSE IF rowIdx > Len(days) THEN TimetableEntries(rows, rowIdx + 1)
    ELSE TimetableCells(rows[rowIdx], 1, days[rowIdx]) \o TimetableEntries(rows, rowIdx + 1)

\* Grade history pages the aggregator is run against.
CgpaDocs ==
    { EmptyPage,
      [EmptyPage EXCEPT !.hasTable = TRUE,
          !.rows = << <<"Semester", "Credits", "CGPA">>, <<"Fall 2024-25", "20", "7.5">>,
                      <<"Winter 2024-25", "20", "10">>, <<"Fall 2025-26", "20", "7.5">> >>] }

\* collectAICGPA, lines 338-369.
RECURSIVE CgpaFold(_, _)
CgpaFold(rows, acc) ==
    IF rows = <<>> THEN acc
    ELSE LET cells == Head(rows)
             sem   == cells[1]
             cgpa  == SscanfFloat(cells[3])
             keep  == cgpa > acc.currentCGPA
         IN  IF Len(cells) < 3 \/ sem = "" \/ sem = "Semester"
             THEN CgpaFold(Tail(rows), acc)
             ELSE CgpaFold(Tail(rows),
                    [currentCGPA |-> IF keep THEN cgpa ELSE acc.currentCGPA,
                     semester    |-> IF keep THEN sem ELSE acc.semester,
                     trend       |-> Append(acc.trend, [Semester |-> sem, CGPA |-> cgpa])])

ParseCGPA(doc) == CgpaFold(doc.rows, [currentCGPA |-> 0, semester |-> "", trend |-> <<>>])

----------------------------------------------------------------------------
(* The five collectors of features/ai-data-builder.go. Each is given what  *)
(* the portal answers and yields its return values and the fetches made.   *)

Fetched(kind, sem) == [kind |-> kind, sem |-> sem]

Failed(msg) == [val |-> <<>>, err |-> msg, log |-> <<>>, seen |-> <<>>]

collectAIMarks(selOk, resp) ==
    IF ~ValidateLogin THEN Failed("invalid login")
    ELSE LET semester == SelectSemester(selOk, Latest) IN
         IF semester.err # Nil THEN Failed(semester.err)
         ELSE LET f == FetchReq(resp)
                  log == <<Fetched("marks", semester.SemID)>> IN
              IF f.err # Nil THEN [val |-> <<>>, err |-> f.err, log |-> log, seen |-> <<>>]
              ELSE [val |-> MarksSummaries(f.body.courses, f.body.tables, 1),
                    err |-> Nil, log |-> log, seen |-> <<f.body>>]

collectAIAttendance(selOk, resp) ==
    IF ~ValidateLogin THEN Failed("invalid login")
    ELSE LET semester == SelectSemester(selOk, Latest) IN
         IF semester.err # Nil THEN Failed(semester.err)
         ELSE LET f == FetchReq(resp)
                  log == <<Fetched("attendance", semester.SemID)>>
                  seen == <<[sem |-> semester.SemID, cls |-> resp.cls,
                             hasTable |-> f.body.hasTable, rows |-> Len(f.body.rows)]>> IN
              IF f.err # Nil THEN [val |-> <<>>, err |-> f.err, log |-> log, seen |-> seen]
              ELSE [val |-> AttendanceRecords(f.body.rows), err |-> Nil, log |-> log,
                    seen |-> seen]

\* collectAIExams, lines 231-250: the loop from the latest semester down.
\* The loop without the return at line 246: it runs on to the oldest semester.
RECURSIVE ExamLoopNoReturn(_, _, _, _, _)
ExamLoopNoReturn(allSems, i, resps, log, seen) ==
    IF i < 1 THEN [val |-> <<>>, err |-> Nil, log |-> log, seen |-> seen]
    ELSE LET semID == allSems[i]
             f     == FetchReq(resps[semID])
             log2  == Append(log, Fetched("exams", semID))
             p     == parseExamSchedule(f.body, resps[semID].parseOk)
             n     == IF f.err = Nil /\ p.err = Nil THEN Len(p.exams) ELSE 0
             seen2 == Append(seen, [sem |-> semID, cls |-> resps[semID].cls, n |-> n])
             rest  == ExamLoopNoReturn(allSems, i - 1, resps, log2, seen2)
         IN  IF f.err = Nil /\ p.err = Nil /\ Len(p.exams) > 0 /\ rest.val = <<>>
             THEN [rest EXCEPT !.val = p.exams]
             ELSE rest

\* The loop with a failed fetch repeated once for the same semester before
\* it goes on to the previous one.
RECURSIVE ExamLoopRetriesFetch(_, _, _, _, _)
ExamLoopRetriesFetch(allSems, i, resps, log, seen) ==
    IF i < 1 THEN [val |-> <<>>, err |-> Nil, log |-> log, seen |-> seen]
    ELSE LET semID == allSems[i]
             f     == FetchReq(resps[semID])
             log2  == Append(log, Fetched("exams", semID))
             p     == parseExamSchedule(f.body, resps[semID].parseOk)
             n     == IF f.err = Nil /\ p.err = Nil THEN Len(p.exams) ELSE 0
             entry == [sem |-> semID, cls |-> resps[semID].cls, n |-> n]
             seen2 == Append(seen, entry)
         IN  IF f.err # Nil
             THEN ExamLoopRetriesFetch(allSems, i - 1, resps,
                      Append(log2, Fetched("exams", semID)), Append(seen2, entry))
             ELSE IF p.err = Nil /\ Len(p.exams) > 0
                  THEN [val |-> p.exams, err |-> Nil, log |-> log2, seen |-> seen2]
                  ELSE ExamLoopRetriesFetch(allSems, i - 1, resps, log2, seen2)

\* seen: per iteration, the semester, the portal's answer and the number of
\* events the iteration obtained.
RECURSIVE ExamLoop(_, _, _, _, _)
ExamLoop(allSems, i, resps, log, seen) ==
    IF i < 1 THEN [val |-> <<>>, err |-> Nil, log |-> log, seen |-> seen]
    ELSE LET semID == allSems[i]
             f     == FetchReq(resps[semID])
             log2  == Append(log, Fetched("exams", semID))
             p     == parseExamSchedule(f.body, resps[semID].parseOk)
             n     == IF f.err = Nil /\ p.err = Nil THEN Len(p.exams) ELSE 0
             seen2 == Append(seen, [sem |-> semID, cls |-> resps[semID].cls, n |-> n])
         IN  IF f.err # Nil THEN ExamLoop(allSems, i - 1, resps, log2, seen2)
             ELSE IF p.err = Nil /\ Len(p.exams) > 0
                  THEN [val |-> p.exams, err |-> Nil, log |-> log2, seen |-> seen2]
                  ELSE ExamLoop(allSems, i - 1, resps, log2, seen2)

collectAIExams(semOk, resps) ==
    IF ~ValidateLogin THEN Failed("invalid login")
    ELSE LET allSems == GetSemDetails(semOk) IN
         IF allSems.err # Nil THEN Failed(allSems.err)
         ELSE IF Len(allSems.sems) = 0 THEN Failed("no semesters found")
         ELSE ExamLoop(allSems.sems, Len(allSems.sems), resps, <<>>, <<>>)

collectAITimetable(selOk, resp) ==
    IF ~ValidateLogin THEN Failed("invalid login")
    ELSE LET semester == SelectSemester(selOk, Latest) IN
         IF semester.err # Nil THEN Failed(semester.err)
         ELSE LET f == FetchReq(resp)
                  log == <<Fetched("timetable", semester.SemID)>> IN
              IF f.err # Nil THEN [val |-> <<>>, err |-> f.err, log |-> log]
              ELSE [val |-> TimetableEntries(f.body.rows, 1), err |-> Nil, log |-> log]

collectAICGPAFetchesUnchecked(resp) ==
    LET f == FetchReq(resp)
        log == <<Fetched("cgpa", 0)>> IN
    IF f.err # Nil
    THEN [cgpa |-> 0, trend |-> <<>>, semester |-> "", err |-> f.err, log |-> log]
    ELSE LET r == ParseCGPA(f.body) IN
         [cgpa |-> r.currentCGPA, trend |-> r.trend, semester |-> r.semester,
          err |-> Nil, log |-> log]

collectAICGPA(resp) ==
    IF ~ValidateLogin
    THEN [cgpa |-> 0, trend |-> <<>>, semester |-> "", err |-> "invalid login", log |-> <<>>]
    ELSE LET f == FetchReq(resp)
             log == <<Fetched("cgpa", 0)>> IN
         IF f.err # Nil
         THEN [cgpa |-> 0, trend |-> <<>>, semester |-> "", err |-> f.err, log |-> log]
         ELSE LET r == ParseCGPA(f.body) IN
              [cgpa |-> r.currentCGPA, trend |-> r.trend, semester |-> r.semester,
               err |-> Nil, log |-> log]

\* What the exam schedule request of one semester can meet: a failed or
\* expired fetch, a page of n rows, or a page parseExamSchedule rejects.
ExamOutcomes ==
    {[cls |-> "Transport", n |-> 0, parseOk |-> TRUE],
     [cls |-> "Expired", n |-> 0, parseOk |-> TRUE],
     [cls |-> "Ok", n |-> 1, parseOk |-> FALSE]}
        \cup {[cls |-> "Ok", n |-> n, parseOk |-> TRUE] : n \in 0..MaxExamRows}

\* The portal's answer to the exam schedule request of semester s.
ExamResponse(s, o) ==
    [cls |-> o.cls, doc |-> IF o.cls = "Ok" THEN ExamDoc(s, o.n) ELSE EmptyPage,
     parseOk |-> o.parseOk]

----------------------------------------------------------------------------
(* BuildAIData, features/ai-data-builder.go lines 15-71 *)

ZeroData ==
    [RegNo |-> "", GeneratedAt |-> 0, Marks |-> <<>>, Attendance |-> <<>>,
     Exams |-> <<>>, Timetable |-> <<>>, CGPA |-> 0, CGPATrend |-> <<>>, Semester |-> ""]

\* A collector call as BuildAIData saw it.
Called(kind, err, val) == [kind |-> kind, failed |-> err # Nil, val |-> val]

\* fmt.Sprintf("<kind>: %v", err)
ErrEntry(kind, err) == [kind |-> kind, err |-> err]

\* lines 16-21
BuildAIData ==
    /\ pc = "start"
    /\ data' = [ZeroData EXCEPT !.RegNo = regNo, !.GeneratedAt = now]
    /\ errors' = <<>>
    /\ pc' = "marks"
    /\ UNCHANGED <<retErr, calls, fetchLog, examLog, attLog, marksLog, envVars, cliVars, gateVars>>

\* lines 23-29, giving up on the three collectors that follow when the marks
\* cannot be collected
BuildAIDataMarksAborts ==
    /\ pc = "marks"
    /\ \E selOk \in BOOLEAN, resp \in Responses(MarksDocs) :
         LET r == collectAIMarks(selOk, resp) IN
         /\ IF r.err # Nil
            THEN errors' = Append(errors, ErrEntry("marks", r.err)) /\ data' = data
                 /\ pc' = "cgpa"
            ELSE data' = [data EXCEPT !.Marks = r.val] /\ errors' = errors
                 /\ pc' = "attendance"
         /\ fetchLog' = fetchLog \o r.log
         /\ marksLog' = r.seen
         /\ calls' = Append(calls, Called("marks", r.err, r.val))
    /\ UNCHANGED <<retErr, examLog, attLog, envVars, cliVars, gateVars>>

\* lines 23-29
BuildAIDataMarks ==
    /\ pc = "marks"
    /\ \E selOk \in BOOLEAN, resp \in Responses(MarksDocs) :
         LET r == collectAIMarks(selOk, resp) IN
         /\ IF r.err # Nil
            THEN errors' = Append(errors, ErrEntry("marks", r.err)) /\ data' = data
            ELSE data' = [data EXCEPT !.Marks = r.val] /\ errors' = errors
         /\ fetchLog' = fetchLog \o r.log
         /\ marksLog' = r.seen
         /\ calls' = Append(calls, Called("marks", r.err, r.val))
    /\ pc' = "attendance"
    /\ UNCHANGED <<retErr, examLog, attLog, envVars, cliVars, gateVars>>

\* lines 31-37
BuildAIDataAttendance ==
    /\ pc = "attendance"
    /\ \E selOk \in BOOLEAN, cls \in {"Transport", "Expired", "Ok"} :
         LET sem  == SelectSemester(selOk, Latest).SemID
             resp == [cls |-> cls,
                      doc |-> IF cls = "Ok" /\ sem > 0 THEN AttendanceDoc(sem) ELSE EmptyPage]
             r == collectAIAttendance(selOk, resp) IN
         /\ IF r.err # Nil
            THEN errors' = Append(errors, ErrEntry("attendance", r.err)) /\ data' = data
            ELSE data' = [data EXCEPT !.Attendance = r.val] /\ errors' = errors
         /\ fetchLog' = fetchLog \o r.log
         /\ attLog' = r.seen
         /\ calls' = Append(calls, Called("attendance", r.err, r.val))
    /\ pc' = "exams"
    /\ UNCHANGED <<retErr, examLog, marksLog, envVars, cliVars, gateVars>>

\* lines 39-45
BuildAIDataExams ==
    /\ pc = "exams"
    /\ \E semOk \in BOOLEAN :
       \E outcomes \in [1..nSems -> ExamOutcomes] :
         /\ LET resps == [s \in 1..nSems |-> ExamResponse(s, outcomes[s])]
                r == collectAIExams(semOk, resps) IN
            /\ IF r.err # Nil
               THEN errors' = Append(errors, ErrEntry("exams", r.err)) /\ data' = data
               ELSE data' = [data EXCEPT !.Exams = r.val] /\ errors' = errors
            /\ fetchLog' = fetchLog \o r.log
            /\ examLog' = r.seen
            /\ calls' = Append(calls, Called("exams", r.err, r.val))
    /\ pc' = "timetable"
    /\ UNCHANGED <<retErr, attLog, marksLog, envVars, cliVars, gateVars>>

\* lines 47-53, handing on a fresh document when the timetable fails
BuildAIDataTimetableResets ==
    /\ pc = "timetable"
    /\ \E selOk \in BOOLEAN, resp \in Responses(TimetableDocs) :
         LET r == collectAITimetable(selOk, resp) IN
         /\ IF r.err # Nil
            THEN /\ errors' = Append(errors, ErrEntry("timetable", r.err))
                 /\ data' = [ZeroData EXCEPT !.RegNo = data.RegNo,
                                             !.GeneratedAt = data.GeneratedAt]
            ELSE data' = [data EXCEPT !.Timetable = r.val] /\ errors' = errors
         /\ fetchLog' = fetchLog \o r.log
         /\ calls' = Append(calls, Called("timetable", r.err, r.val))
    /\ pc' = "cgpa"
    /\ UNCHANGED <<retErr, examLog, attLog, marksLog, envVars, cliVars, gateVars>>

\* lines 47-53
BuildAIDataTimetable ==
    /\ pc = "timetable"
    /\ \E selOk \in BOOLEAN, resp \in Responses(TimetableDocs) :
         LET r == collectAITimetable(selOk, resp) IN
         /\ IF r.err # Nil
            THEN errors' = Append(errors, ErrEntry("timetable", r.err)) /\ data' = data
            ELSE data' = [data EXCEPT !.Timetable = r.val] /\ errors' = errors
         /\ fetchLog' = fetchLog \o r.log
         /\ calls' = Append(calls, Called("timetable", r.err, r.val))
    /\ pc' = "cgpa"
    /\ UNCHANGED <<retErr, examLog, attLog, marksLog, envVars, cliVars, gateVars>>

\* The nil error.
NoError == [prefix |-> "", parts |-> <<>>]

\* strings.Join(errors, "; ") under the fixed prefix
JoinErrors(errs) == [prefix |-> "partial data collection errors", parts |-> errs]

\* lines 65-70, with the length test off by one
ReturnOffByOne(errs) == IF Len(errs) > 1 THEN JoinErrors(errs) ELSE NoError

\* lines 65-70
Return(errs) == IF Len(errs) > 0 THEN JoinErrors(errs) ELSE NoError

\* lines 55-70: the last collector and the return
BuildAIDataCGPA ==
    /\ pc = "cgpa"
    /\ \E resp \in Responses(CgpaDocs) :
         LET r == collectAICGPA(resp)
             errs == IF r.err # Nil THEN Append(errors, ErrEntry("cgpa", r.err)) ELSE errors
         IN
         /\ errors' = errs
         /\ data' = IF r.err # Nil THEN data
                    ELSE [data EXCEPT !.CGPA = r.cgpa, !.CGPATrend = r.trend,
                                      !.Semester = r.semester]
         /\ fetchLog' = fetchLog \o r.log
         /\ calls' = Append(calls, Called("cgpa", r.err, <<r.cgpa, r.trend, r.semester>>))
         /\ retErr' = Return(errs)
    /\ pc' = "done"
    /\ UNCHANGED <<examLog, attLog, marksLog, envVars, cliVars, gateVars>>

----------------------------------------------------------------------------
(* The CLI commands: features.GetMarks and features.GetAttendance          *)

Out(msg, sem) == [msg |-> msg, sem |-> sem]

\* Marks pages the marks command is run against.
CliMarksDocs ==
    MarksDocs \cup {[EmptyPage EXCEPT !.courses = <<"CSE1001">>, !.tables = << <<>> >>]}

\* GetMarks, lines 76-110: what the loop over the courses prints.
RECURSIVE PrintCourses(_, _, _)
PrintCourses(courseDetails, elements, idx) ==
    IF idx > Len(courseDetails) THEN <<>>
    ELSE LET rest == PrintCourses(courseDetails, elements, idx + 1) IN
         IF idx > Len(elements)
         THEN (IF debug THEN <<Out("No corresponding table found for course", idx)>> ELSE <<>>)
                  \o rest
         ELSE LET ex == ExtractMarks(elements[idx]) IN
              IF Len(ex.SingleSubTable) = 0
              THEN <<Out("No Data Found for course", idx)>> \o rest
              ELSE <<Out("course table", idx)>> \o rest

\* GetMarks, lines 34-117, for the semester semChoice resolves to. The pages
\* modelled carry no "not included in GPA" span (lines 112-116).
GetMarks ==
    /\ cliPc = "start"
    /\ cliPc' = "done"
    /\ \E selOk \in BOOLEAN, semChoice \in 0..nSems, resp \in Responses(CliMarksDocs) :
         IF ~ValidateLogin THEN output' = output /\ cliLog' = cliLog
         ELSE LET semester == SelectSemester(selOk, semChoice) IN
              IF semester.err # Nil
              THEN output' = output \o <<Out("Error fetching semesters", 0)>> /\ cliLog' = cliLog
              ELSE LET f == FetchReq(resp)
                       doc == f.body
                       elements == doc.tables
                       errLine == IF f.err # Nil /\ debug
                                  THEN <<Out(f.err, semester.SemID)>> ELSE <<>>
                   IN  /\ cliLog' = Append(cliLog,
                              [kind |-> "marks", sem |-> semester.SemID, cls |-> resp.cls,
                               n |-> Len(elements)])
                       /\ output' = output \o errLine \o
                              (IF Len(elements) = 0
                               THEN <<Out("No Data Found", semester.SemID)>>
                               ELSE PrintCourses(doc.courses, elements, 1))
    /\ UNCHANGED <<cliI, attendanceList, found, envVars, aggVars, gateVars>>

\* calculateAttendance, part_006 lines 359-383. 0.7401 and 1 - 0.7401 are
\* taken as 7401/10000 and 2599/10000.
TargetAttendance == 7401

CeilDiv(a, b) == (a + b - 1) \div b

calculateAttendanceRoundsDown(attended, total, classtype) ==
    LET needed == TargetAttendance * total
        unit == IF classtype = 1 THEN "lab(s)" ELSE "class(es)" IN
    IF 10000 * attended < needed
    THEN [color |-> "red", text |-> "Attend more",
          n |-> (needed - 10000 * attended) \div (10000 - TargetAttendance), unit |-> unit]
    ELSE [color |-> "green", text |-> "Can miss", n |-> (10000 * attended - needed) \div TargetAttendance,
          unit |-> unit]

calculateAttendanceMissesByShortfall(attended, total, classtype) ==
    LET needed == TargetAttendance * total
        unit == IF classtype = 1 THEN "lab(s)" ELSE "class(es)" IN
    IF 10000 * attended < needed
    THEN [color |-> "red", text |-> "Attend more",
          n |-> CeilDiv(needed - 10000 * attended, 10000 - TargetAttendance), unit |-> unit]
    ELSE [color |-> "green", text |-> "Can miss",
          n |-> (10000 * attended - needed) \div (10000 - TargetAttendance), unit |-> unit]

calculateAttendance(attended, total, classtype) ==
    LET needed == TargetAttendance * total
        unit == IF classtype = 1 THEN "lab(s)" ELSE "class(es)" IN
    IF 10000 * attended < needed
    THEN [color |-> "red", text |-> "Attend more", n |-> CeilDiv(needed - 10000 * attended, 10000 - TargetAttendance),
          unit |-> unit]
    ELSE [color |-> "green", text |-> "Can miss", n |-> (10000 * attended - needed) \div TargetAttendance,
          unit |-> unit]

\* calculateAttendance before it has been called.
NoAlert == [color |-> "", text |-> "", n |-> 0, unit |-> ""]

\* The largest total the alert is computed for.
MaxTotal == 12

CalcIdle == argAttended = 0 /\ argTotal = 0 /\ argClasstype = 0 /\ alert = NoAlert

\* calculateAttendance(attended, total, classtype) on its own.
CalculateAlert ==
    /\ cliPc = "calc"
    /\ alert = NoAlert
    /\ alert' = calculateAttendance(argAttended, argTotal, argClasstype)
    /\ UNCHANGED <<argAttended, argTotal, argClasstype, portalVars, loginVars, webVars,
                   aggVars, cliVars, gateVars>>

\* A row of table#AttendanceDetailDataTable: the cells findAndSaveAttendance reads.
AttRow(name, type, attended, total) ==
    [sub_name |-> name, sub_type |-> type, proff |-> "Faculty",
     attended |-> attended, total |-> total, percent |-> "75"]

\* strconv.Atoi on the attended and total cells.
AtoiCount(s) ==
    CASE s = "10" -> [ok |-> TRUE, v |-> 10]
      [] s = "20" -> [ok |-> TRUE, v |-> 20]
      [] s = "27" -> [ok |-> TRUE, v |-> 27]
      [] s = "30" -> [ok |-> TRUE, v |-> 30]
      [] s = "40" -> [ok |-> TRUE, v |-> 40]
      [] OTHER    -> [ok |-> FALSE, v |-> 0]

AttendanceHeader ==
    [sub_name |-> "Subject", sub_type |-> "Type", proff |-> "Faculty Name",
     classes_attended |-> <<"Classes Attended">>, percent |-> "Percentage",
     alert |-> [color |-> "", text |-> "75% Alert", n |-> 0, unit |-> ""]]

\* lines 297-348 with the alert of a lab computed from the raw counts
RECURSIVE AttendanceRowsRawCounts(_)
AttendanceRowsRawCounts(rows) ==
    IF rows = <<>> THEN <<>>
    ELSE LET r == Head(rows)
             a == AtoiCount(r.attended)
             t == AtoiCount(r.total)
             lab == r.sub_type = "Lab Only" \/ r.sub_type = "Embedded Lab"
             missOrAttend == calculateAttendance(a.v, t.v, IF lab THEN 1 ELSE 0)
         IN  IF ~a.ok \/ ~t.ok THEN AttendanceRowsRawCounts(Tail(rows))
             ELSE <<[sub_name |-> r.sub_name, sub_type |-> r.sub_type, proff |-> r.proff,
                     classes_attended |-> <<r.attended, r.total>>, percent |-> r.percent,
                     alert |-> missOrAttend]>> \o AttendanceRowsRawCounts(Tail(rows))

\* findAndSaveAttendance, lines 297-348: the list rows of the table rows.
RECURSIVE AttendanceRows(_)
AttendanceRows(rows) ==
    IF rows = <<>> THEN <<>>
    ELSE LET r == Head(rows)
             a == AtoiCount(r.attended)
             t == AtoiCount(r.total)
             lab == r.sub_type = "Lab Only" \/ r.sub_type = "Embedded Lab"
             missOrAttend == IF lab THEN calculateAttendance(a.v \div 2, t.v \div 2, 1)
                             ELSE calculateAttendance(a.v, t.v, 0)
         IN  IF ~a.ok \/ ~t.ok THEN AttendanceRows(Tail(rows))
             ELSE <<[sub_name |-> r.sub_name, sub_type |-> r.sub_type, proff |-> r.proff,
                     classes_attended |-> <<r.attended, r.total>>, percent |-> r.percent,
                     alert |-> missOrAttend]>> \o AttendanceRows(Tail(rows))

\* lines 330-335: the rows whose counts do not convert, reported when debugging.
RECURSIVE ConversionErrors(_, _)
ConversionErrors(rows, sem) ==
    IF rows = <<>> THEN <<>>
    ELSE (IF ~AtoiCount(Head(rows).attended).ok \/ ~AtoiCount(Head(rows).total).ok
          THEN <<Out("Error converting attendance numbers for subject", sem)>> ELSE <<>>)
             \o ConversionErrors(Tail(rows), sem)

\* findAndSaveAttendance, lines 291-357: the list and what it prints.
findAndSaveAttendance(doc, sem) ==
    IF doc.hasTable
    THEN [list |-> <<AttendanceHeader>> \o AttendanceRows(doc.rows),
          out |-> IF debug THEN ConversionErrors(doc.rows, sem) ELSE <<>>]
    ELSE [list |-> <<AttendanceHeader>>,
          out |-> (IF debug THEN <<Out("Table with ID 'AttendanceDetailDataTable' not found.", sem)>>
                   ELSE <<>>)
                  \o <<Out("No attendance table found for the selected semester.", sem)>>]

\* Attendance pages of semester s the attendance command is run against:
\* no table, an empty table, a row with an unreadable count, a theory and
\* a lab row, a theory row just under 75% and an embedded lab row.
CliAttendanceDoc(s, k) ==
    CASE k = 1 -> EmptyPage
      [] k = 2 -> [EmptyPage EXCEPT !.hasTable = TRUE]
      [] k = 3 -> [EmptyPage EXCEPT !.hasTable = TRUE,
                       !.rows = <<AttRow(CourseOf(s), "Theory Only", "x", "40")>>]
      [] k = 4 -> [EmptyPage EXCEPT !.hasTable = TRUE,
                       !.rows = <<AttRow(CourseOf(s), "Theory Only", "30", "40"),
                                  AttRow(CourseOf(s), "Lab Only", "20", "40")>>]
      [] k = 5 -> [EmptyPage EXCEPT !.hasTable = TRUE,
                       !.rows = <<AttRow(CourseOf(s), "Theory Only", "20", "27"),
                                  AttRow(CourseOf(s), "Embedded Lab", "27", "40")>>]

CliAttendanceOutcomes ==
    {[cls |-> "Transport", k |-> 1], [cls |-> "Expired", k |-> 1]}
        \cup {[cls |-> "Ok", k |-> k] : k \in 1..5}

\* GetAttendance, lines 245-278: the loop from the latest semester down.
RECURSIVE AttendanceLoop(_, _, _, _)
AttendanceLoop(semDetails, i, resps, st) ==
    IF i < 1 THEN st
    ELSE LET semID == semDetails[i]
             f     == FetchReq(resps[semID])
             r     == findAndSaveAttendance(f.body, semID)
             seen  == [kind |-> "attendance", sem |-> semID, cls |-> resps[semID].cls,
                       hasTable |-> f.body.hasTable, rows |-> Len(f.body.rows),
                       n |-> IF f.err = Nil THEN Len(r.list) - 1 ELSE 0]
         IN  IF f.err # Nil
             THEN AttendanceLoop(semDetails, i - 1, resps,
                    [st EXCEPT !.log = Append(@, seen), !.i = i,
                               !.out = @ \o (IF debug THEN <<Out("Error fetching attendance", semID)>>
                                             ELSE <<>>)])
             ELSE IF Len(r.list) > 1
             THEN [st EXCEPT !.log = Append(@, seen), !.i = i, !.list = r.list, !.found = TRUE,
                             !.out = @ \o r.out \o (IF debug THEN <<Out("Selected Semester", semID)>>
                                                    ELSE <<>>)]
             ELSE AttendanceLoop(semDetails, i - 1, resps,
                    [st EXCEPT !.log = Append(@, seen), !.i = i, !.list = r.list,
                               !.out = @ \o r.out \o
                                   (IF debug THEN <<Out("No attendance data found. Trying previous semester.", semID)>>
                                    ELSE <<>>)])

\* GetAttendance, lines 221-289.
GetAttendance ==
    /\ cliPc = "start"
    /\ cliPc' = "done"
    /\ \E semOk \in BOOLEAN :
       \E outcomes \in [1..nSems -> CliAttendanceOutcomes] :
         /\ LET resps == [s \in 1..nSems |->
                            [cls |-> outcomes[s].cls, doc |-> CliAttendanceDoc(s, outcomes[s].k)]]
                st0 == [log |-> cliLog, i |-> cliI, list |-> attendanceList,
                        found |-> FALSE, out |-> output]
                semDetails == GetSemDetails(semOk)
                st == IF ~ValidateLogin THEN st0
                      ELSE IF semDetails.err # Nil
                      THEN [st0 EXCEPT !.out = @ \o
                               (IF debug THEN <<Out("Error fetching semesters", 0)>> ELSE <<>>)
                               \o <<Out("Please login using the cli-top login command.", 0)>>]
                      ELSE IF Len(semDetails.sems) = 0
                      THEN [st0 EXCEPT !.out = @ \o <<Out("No semesters found.", 0)>>]
                      ELSE LET l == AttendanceLoop(semDetails.sems, Len(semDetails.sems), resps, st0)
                           IN  IF ~l.found
                               THEN [l EXCEPT !.out = @ \o
                                        <<Out("No attendance data available in any semester.", 0)>>]
                               ELSE [l EXCEPT !.out = @ \o <<Out("attendance table", l.i)>>]
            IN  /\ cliLog' = st.log
                /\ cliI' = st.i
                /\ attendanceList' = st.list
                /\ found' = st.found
                /\ output' = st.out
    /\ UNCHANGED <<envVars, aggVars, gateVars>>

----------------------------------------------------------------------------
(* The login command: credCmd of cmd (part_005). GenerateAESKey,           *)
(* encryptPassword and the login package are called, not defined, by the   *)
(* sources at hand.                                                        *)

MaxLoginRuns == 2

Usernames == {"21bce0001", "21BCE0002"}
Passwords == {"secret", "wrong"}
Keys      == {"k1", "k2"}

\* strings.ToUpper
ToUpper(s) == IF s = "21bce0001" THEN "21BCE0001" ELSE s

\* The portal's accounts: the password and the registration number of a user.
Account(user) ==
    IF user = "21BCE0001" THEN [password |-> "secret", regNo |-> "21BCE0001"]
    ELSE [password |-> "secret", regNo |-> "21BCE0002"]

NoCookies == [CSRF |-> "", JSESSIONID |-> "", SERVERID |-> ""]

\* encryptPassword(password, key): the ciphertext, or an error.
encryptPassword(password, key, ok) ==
    IF ok THEN [text |-> "aes(" \o password \o "," \o key \o ")", err |-> Nil]
    ELSE [text |-> "", err |-> "encryption failed"]

\* login.Login(username, password): the login handshake. It goes through
\* when the portal is reached and the credentials are the account's.
Login(user, password, portalUp) ==
    [user |-> user, ok |-> portalUp /\ Account(user).password = password,
     JSESSIONID |-> IF portalUp THEN "js-" \o user ELSE ""]

\* login.HomePage(loginSecrets): the cookie set and the registration number
\* read from the home page, empty when the login did not go through.
HomePage(secrets) ==
    IF secrets.ok
    THEN [cookies |-> [CSRF |-> "csrf-" \o secrets.user, JSESSIONID |-> secrets.JSESSIONID,
                       SERVERID |-> "s1"],
          regNo |-> Account(secrets.user).regNo]
    ELSE [cookies |-> [NoCookies EXCEPT !.JSESSIONID = secrets.JSESSIONID], regNo |-> ""]

\* "\"" + s + "\""
Quoted(s) == "\"" \o s \o "\""

\* The file before the first login.
EmptyStore ==
    [VTOP_USERNAME |-> "", PASSWORD |-> "", KEY |-> "", CSRF |-> "", JSESSIONID |-> "",
     SERVERID |-> "", REGNO |-> ""]

\* lines 50-56: the seven viper.Set calls
Settings(user, encryptedPassword, key, cookies, reg) ==
    [VTOP_USERNAME |-> Quoted(user), PASSWORD |-> Quoted(encryptedPassword),
     KEY |-> Quoted(key), CSRF |-> Quoted(cookies.CSRF),
     JSESSIONID |-> Quoted(cookies.JSESSIONID), SERVERID |-> Quoted(cookies.SERVERID),
     REGNO |-> Quoted(reg)]

\* What one run of the command leaves behind.
LoginRun(st, calls_, writes, out) ==
    [store |-> st, calls |-> calls_, writes |-> writes, out |-> out]

\* lines 20-64 with the settings written before regNo is looked at
credCmdRunSavesFirst(username, password, key, encOk, portalUp, writeOk) ==
    LET enc  == encryptPassword(password, key, encOk)
        user == ToUpper(username)
        home == HomePage(Login(user, password, portalUp))
        called == <<[username |-> user, regNo |-> home.regNo, cookies |-> home.cookies,
                     key |-> key, encrypted |-> enc.text, encErr |-> enc.err]>>
        saved == IF writeOk THEN Settings(user, enc.text, key, home.cookies, home.regNo)
                 ELSE store
    IN  IF home.regNo = ""
        THEN LoginRun(saved, called, <<writeOk>>,
                      <<Out("Login failed. Please check your credentials and try again.", 0)>>)
        ELSE LoginRun(saved, called, <<writeOk>>, <<Out("Login successful", 0)>>)

\* lines 20-64: one run of the command on what the user types and what the
\* key generator, the portal and the file system do.
credCmdRun(username, password, key, encOk, portalUp, writeOk) ==
    LET enc  == encryptPassword(password, key, encOk)
        user == ToUpper(username)
        note == <<Out("NOTE: Your password will be visible.", 0)>>
    IN  IF enc.err # Nil /\ debug
        THEN LoginRun(store, <<>>, <<>>, note \o <<Out("Error encrypting password", 0)>>)
        ELSE LET home == HomePage(Login(user, password, portalUp))
                 called == <<[username |-> user, regNo |-> home.regNo, cookies |-> home.cookies,
                              key |-> key, encrypted |-> enc.text, encErr |-> enc.err]>>
                 out1 == note \o <<Out("Logging in with username", 0), Out("Connecting to VTOP...", 0)>>
             IN  IF home.regNo = ""
                 THEN LoginRun(store, called, <<>>,
                        out1 \o <<Out("Login failed. Please check your credentials and try again.", 0)>>
                             \o (IF debug THEN <<Out("Cookies received", 0)>> ELSE <<>>))
                 ELSE LET out2 == out1 \o <<Out("Login successful", 0)>> IN
                      IF ~writeOk /\ debug
                      THEN LoginRun(store, called, <<writeOk>>,
                                    out2 \o <<Out("Error writing to .env file", 0)>>)
                      ELSE LoginRun(IF writeOk
                                    THEN Settings(user, enc.text, key, home.cookies, home.regNo)
                                    ELSE store,
                                    called, <<writeOk>>,
                                    out2 \o <<Out("Credentials and session saved successfully.", 0)>>)

\* The user runs cli-top login.
credCmd ==
    /\ cliPc = "login"
    /\ loginRuns < MaxLoginRuns
    /\ \E username \in Usernames, password \in Passwords, key \in Keys,
          encOk \in BOOLEAN, portalUp \in BOOLEAN, writeOk \in BOOLEAN :
         LET r == credCmdRun(username, password, key, encOk, portalUp, writeOk) IN
         /\ store' = r.store
         /\ loginCalls' = r.calls
         /\ writeLog' = r.writes
         /\ output' = r.out
    /\ loginRuns' = loginRuns + 1
    /\ UNCHANGED <<portalVars, calcVars, webVars, cliPc, cliI, cliLog, attendanceList, found,
                   aggVars, gateVars>>

LoginIdle == store = EmptyStore /\ loginCalls = <<>> /\ loginRuns = 0 /\ writeLog = <<>>

----------------------------------------------------------------------------
(* The web front-end, part_004: the page script. Every await of the script  *)
(* ends a step; the servers behind API_URL are the environment.             *)

\* The feature requests recorded.
MaxRequests == 2

\* The calls of generateAIContext that wait for their answer at a time.
MaxPending == 1

\* The answers of GET /status: data.ready, data.credentials_exist,
\* data.ai_context_exists.
StatusResponses ==
    [ready : BOOLEAN, credentials_exist : BOOLEAN, ai_context_exists : BOOLEAN]

\* The cards of the page: data-type, data-cmd, data-feature.
Cards ==
    { [type |-> "vtop", cmd |-> "marks", feature |-> ""],
      [type |-> "vtop", cmd |-> "profile", feature |-> ""],
      [type |-> "ai", cmd |-> "", feature |-> "grade-predictor"],
      [type |-> "gemini", cmd |-> "", feature |-> "chatbot"],
      [type |-> "gemini", cmd |-> "", feature |-> "study-guide"],
      [type |-> "gemini", cmd |-> "", feature |-> "insights"] }

\* line 217
needsSemester(cmd) ==
    cmd \in {"marks", "grades", "attendance", "da", "syllabus", "exams", "timetable"}

\* The CAT1 percentages /get-subjects answers with.
Cat1Pcts == {49, 50, 70, 75, 80}

\* The answers of /get-subjects: no subject or one.
SubjectLists == {<<>>} \cup { <<[number |-> 1, cat1_pct |-> p]>> : p \in Cat1Pcts }

\* line 368
subjectStatus(cat1_pct) ==
    IF cat1_pct >= 80 THEN "green" ELSE IF cat1_pct >= 60 THEN "yellow" ELSE "red"

\* The wizard as the page is loaded: hidden, step 1 holds the login form.
WizardHidden == [shown |-> FALSE, step |-> 1, step1 |-> "form", step2 |-> "progress"]

\* lines 47-52
showSetupWizard(w) == [w EXCEPT !.shown = TRUE, !.step = 1]

\* lines 55-60
showAISetupStep(w) == [w EXCEPT !.shown = TRUE, !.step = 2]

\* A request to one of the feature endpoints; gate is the value of
\* systemReady that handleClick tested for the click that led to it.
Request(endpoint, gate) == [endpoint |-> endpoint, gate |-> gate]

WebIdle ==
    /\ webPc = "off" /\ systemReady = FALSE /\ statusPc = "idle" /\ statusResp = <<>>
    /\ wizard = WizardHidden /\ genPending = 0 /\ contextResult = ""
    /\ selecting = <<>> /\ subjectBtns = <<>> /\ requests = <<>>

otherVars == <<portalVars, loginVars, calcVars, aggVars, cliVars, gateVars>>

\* lines 162-180: the page is loaded, checkSystemStatus sends GET /status and
\* the cards get their handlers.
DOMContentLoaded ==
    /\ webPc = "load"
    /\ webPc' = "ready"
    /\ statusPc' = "pending"
    /\ UNCHANGED <<systemReady, statusResp, wizard, genPending, contextResult, selecting,
                   subjectBtns, requests, otherVars>>

\* lines 19-43: the answer of /status arrives, or the fetch fails.
checkSystemStatus ==
    /\ statusPc = "pending"
    /\ \/ /\ statusPc' = "failed"
          /\ UNCHANGED <<systemReady, statusResp, wizard, genPending>>
       \/ \E status \in StatusResponses :
            /\ statusPc' = "done"
            /\ statusResp' = <<status>>
            /\ IF ~status.credentials_exist
               THEN /\ systemReady' = status.ready
                    /\ wizard' = showSetupWizard(wizard)
                    /\ UNCHANGED genPending
               ELSE IF ~status.ai_context_exists
               THEN /\ genPending < MaxPending
                    /\ systemReady' = status.ready
                    /\ wizard' = showAISetupStep(wizard)
                    /\ genPending' = genPending + 1
               ELSE /\ systemReady' = TRUE
                    /\ UNCHANGED <<wizard, genPending>>
    /\ UNCHANGED <<webPc, contextResult, selecting, subjectBtns, requests, otherVars>>

\* lines 66-113, with both fields filled in: POST /login and its answer.
setupLogin ==
    /\ webPc = "ready"
    /\ wizard.shown /\ wizard.step = 1 /\ wizard.step1 = "form"
    /\ \E success \in BOOLEAN :
         IF success
         THEN /\ genPending < MaxPending
              /\ wizard' = [wizard EXCEPT !.step = 2]
              /\ genPending' = genPending + 1
         ELSE /\ wizard' = [wizard EXCEPT !.step1 = "error"]
              /\ UNCHANGED genPending
    /\ UNCHANGED <<webPc, systemReady, statusPc, statusResp, contextResult, selecting,
                   subjectBtns, requests, otherVars>>

\* lines 157-159, setting the flag as well
closeSetupMarksReady ==
    /\ webPc = "ready"
    /\ wizard.shown
    /\ wizard' = [wizard EXCEPT !.shown = FALSE]
    /\ systemReady' = TRUE
    /\ UNCHANGED <<webPc, statusPc, statusResp, genPending, contextResult, selecting,
                   subjectBtns, requests, otherVars>>

\* lines 157-159
closeSetup ==
    /\ webPc = "ready"
    /\ wizard.shown
    /\ wizard' = [wizard EXCEPT !.shown = FALSE]
    /\ UNCHANGED <<webPc, systemReady, statusPc, statusResp, genPending, contextResult,
                   selecting, subjectBtns, requests, otherVars>>

\* lines 124-153: the answer of POST /setup-ai-context arrives.
generateAIContext ==
    /\ genPending > 0
    /\ genPending' = genPending - 1
    /\ \E success \in BOOLEAN :
         IF success
         THEN /\ wizard' = [wizard EXCEPT !.step = 3]
              /\ systemReady' = TRUE
              /\ contextResult' = "ok"
         ELSE /\ wizard' = [wizard EXCEPT !.step2 = "error"]
              /\ contextResult' = "failed"
              /\ UNCHANGED systemReady
    /\ UNCHANGED <<webPc, statusPc, statusResp, selecting, subjectBtns, requests, otherVars>>

\* lines 108 and 149: "Try Again" loads the page anew.
reload ==
    /\ webPc = "ready"
    /\ wizard.shown
    /\ \/ wizard.step = 1 /\ wizard.step1 = "error"
       \/ wizard.step = 2 /\ wizard.step2 = "error"
    /\ webPc' = "load" /\ systemReady' = FALSE /\ statusPc' = "idle" /\ statusResp' = <<>>
    /\ wizard' = WizardHidden /\ genPending' = 0 /\ contextResult' = ""
    /\ selecting' = <<>> /\ subjectBtns' = <<>>
    /\ UNCHANGED <<requests, otherVars>>

\* lines 183-212 with runVTOP, runAI, runGemini and showSubjectSelection up
\* to their first wait for the user: a click on the button of a card.
handleClick ==
    /\ webPc = "ready"
    /\ Len(requests) < MaxRequests
    /\ \E card \in Cards :
         IF ~systemReady
         THEN /\ wizard' = showSetupWizard(wizard)
              /\ UNCHANGED <<selecting, subjectBtns, requests>>
         ELSE /\ UNCHANGED wizard
              /\ IF card.type = "vtop"
                 THEN IF needsSemester(card.cmd)
                      THEN /\ selecting' = <<[cmd |-> card.cmd, gate |-> systemReady]>>
                           /\ subjectBtns' = <<>>
                           /\ UNCHANGED requests
                      ELSE /\ requests' = Append(requests, Request("/execute", systemReady))
                           /\ selecting' = <<>> /\ subjectBtns' = <<>>
                 ELSE IF card.type = "ai"
                 THEN /\ requests' = Append(requests, Request("/ai-features", systemReady))
                      /\ selecting' = <<>> /\ subjectBtns' = <<>>
                 ELSE IF card.feature \in {"chatbot", "voice"}
                 THEN /\ selecting' = <<>> /\ subjectBtns' = <<>>
                      /\ UNCHANGED requests
                 ELSE IF card.feature = "study-guide"
                 THEN /\ \E subjects \in SubjectLists :
                           subjectBtns' = [i \in 1..Len(subjects) |->
                                             [number |-> subjects[i].number,
                                              cat1_pct |-> subjects[i].cat1_pct,
                                              status |-> subjectStatus(subjects[i].cat1_pct),
                                              gate |-> systemReady]]
                      /\ selecting' = <<>>
                      /\ UNCHANGED requests
                 ELSE /\ requests' = Append(requests, Request("/gemini-features", systemReady))
                      /\ selecting' = <<>> /\ subjectBtns' = <<>>
    /\ UNCHANGED <<webPc, systemReady, statusPc, statusResp, genPending, contextResult,
                   otherVars>>

\* lines 221-233 and 825-838: the user picks a semester or cancels.
showSemesterSelector ==
    /\ webPc = "ready"
    /\ selecting # <<>>
    /\ \E cancelled \in BOOLEAN :
         IF cancelled THEN UNCHANGED requests
         ELSE requests' = Append(requests, Request("/execute", selecting[1].gate))
    /\ selecting' = <<>>
    /\ UNCHANGED <<webPc, systemReady, statusPc, statusResp, wizard, genPending, contextResult,
                   subjectBtns, otherVars>>

\* lines 402-405 and 414-425: the user picks a subject of the study guide.
generateStudyGuide ==
    /\ webPc = "ready"
    /\ subjectBtns # <<>>
    /\ \E i \in 1..Len(subjectBtns) :
         requests' = Append(requests, Request("/gemini-features", subjectBtns[i].gate))
    /\ subjectBtns' = <<>>
    /\ UNCHANGED <<webPc, systemReady, statusPc, statusResp, wizard, genPending, contextResult,
                   selecting, otherVars>>

----------------------------------------------------------------------------
(* The pacing/cache gate: VTOPDataManager of vtop_data_manager.py, a       *)
(* single-slot cache with a minimum interval between upstream requests.    *)
(* An upstream aggregation pass is one batch; the document it yields is    *)
(* identified by the number of its batch.                                  *)

NumCallers == 2
MaxTime    == 4
MaxBatches == 6

MinRequestInterval   == 2     \* self.min_request_interval = 2.0 (seconds)
CacheDurationMinutes == 30    \* VTOPDataManager(cache_duration_minutes=30)
DefaultMaxAge        == CacheDurationMinutes * 60

Callers == 1..NumCallers
MaxAges == {1, DefaultMaxAge}

NoCache == [doc |-> 0, at |-> 0]
NeverRequested == 0 - MinRequestInterval
NoRequest == [force |-> FALSE, maxAge |-> 0, seen |-> 0]
NotServed == [doc |-> 0, hit |-> FALSE]

\* The memoized document is usable for a request of this maxAge.
CacheValid(maxAge) == cache # NoCache /\ now - cache.at < maxAge

\* get(handle, maxAge): the caller arrives at the gate.
GateGet(c) ==
    /\ gpc[c] = "idle"
    /\ \E maxAge \in MaxAges :
         greq' = [greq EXCEPT ![c] = [force |-> FALSE, maxAge |-> maxAge, seen |-> 0]]
    /\ gpc' = [gpc EXCEPT ![c] = "wait"]
    /\ UNCHANGED <<now, cache, lastRequest, lock, batches, served, envVars, aggVars, cliVars>>

\* forceRefresh(): the caller arrives at the gate.
GateForceRefresh(c) ==
    /\ gpc[c] = "idle"
    /\ greq' = [greq EXCEPT ![c] = [force |-> TRUE, maxAge |-> 0, seen |-> 0]]
    /\ gpc' = [gpc EXCEPT ![c] = "wait"]
    /\ UNCHANGED <<now, cache, lastRequest, lock, batches, served, envVars, aggVars, cliVars>>

\* Entering without regard to who holds the gate.
GateAcquireUnguarded(c) ==
    /\ gpc[c] = "wait"
    /\ lock' = c
    /\ gpc' = [gpc EXCEPT ![c] = "check"]
    /\ UNCHANGED <<now, cache, lastRequest, greq, batches, served, envVars, aggVars, cliVars>>

\* Callers serialize behind the gate.
GateAcquire(c) ==
    /\ gpc[c] = "wait"
    /\ lock = 0
    /\ lock' = c
    /\ gpc' = [gpc EXCEPT ![c] = "check"]
    /\ UNCHANGED <<now, cache, lastRequest, greq, batches, served, envVars, aggVars, cliVars>>

\* The age check with a document of age maxAge still taken as valid.
GateCheckInclusive(c) ==
    /\ gpc[c] = "check"
    /\ IF ~greq[c].force /\ cache # NoCache /\ now - cache.at <= greq[c].maxAge
       THEN /\ served' = [served EXCEPT ![c] = [doc |-> cache.doc, hit |-> TRUE]]
            /\ gpc' = [gpc EXCEPT ![c] = "idle"]
            /\ lock' = 0
            /\ greq' = [greq EXCEPT ![c] = NoRequest]
       ELSE /\ gpc' = [gpc EXCEPT ![c] = "pace"]
            /\ greq' = [greq EXCEPT ![c].seen = Len(batches)]
            /\ UNCHANGED <<served, lock>>
    /\ UNCHANGED <<now, cache, lastRequest, batches, envVars, aggVars, cliVars>>

\* The age check: a valid memoized document is returned as it is; a forced
\* refresh skips the check.
GateCheck(c) ==
    /\ gpc[c] = "check"
    /\ IF ~greq[c].force /\ CacheValid(greq[c].maxAge)
       THEN /\ served' = [served EXCEPT ![c] = [doc |-> cache.doc, hit |-> TRUE]]
            /\ gpc' = [gpc EXCEPT ![c] = "idle"]
            /\ lock' = 0
            /\ greq' = [greq EXCEPT ![c] = NoRequest]
       ELSE /\ gpc' = [gpc EXCEPT ![c] = "pace"]
            /\ greq' = [greq EXCEPT ![c].seen = Len(batches)]
            /\ UNCHANGED <<served, lock>>
    /\ UNCHANGED <<now, cache, lastRequest, batches, envVars, aggVars, cliVars>>

\* Pacing that a forced refresh is exempt from.
GatePaceUnlessForced(c) ==
    /\ gpc[c] = "pace"
    /\ greq[c].force \/ now - lastRequest >= MinRequestInterval
    /\ Len(batches) < MaxBatches
    /\ lastRequest' = now
    /\ batches' = Append(batches, now)
    /\ gpc' = [gpc EXCEPT ![c] = "fetch"]
    /\ UNCHANGED <<now, cache, lock, greq, served, envVars, aggVars, cliVars>>

\* The caller sleeps until the minimum interval since the last upstream
\* request has passed, then starts the aggregation pass.
GatePace(c) ==
    /\ gpc[c] = "pace"
    /\ now - lastRequest >= MinRequestInterval
    /\ Len(batches) < MaxBatches
    /\ lastRequest' = now
    /\ batches' = Append(batches, now)
    /\ gpc' = [gpc EXCEPT ![c] = "fetch"]
    /\ UNCHANGED <<now, cache, lock, greq, served, envVars, aggVars, cliVars>>

\* The aggregation pass returns; its document replaces the memoized one.
GateStore(c) ==
    /\ gpc[c] = "fetch"
    /\ cache' = [doc |-> Len(batches), at |-> now]
    /\ served' = [served EXCEPT ![c] = [doc |-> Len(batches), hit |-> FALSE]]
    /\ gpc' = [gpc EXCEPT ![c] = "idle"]
    /\ lock' = 0
    /\ greq' = [greq EXCEPT ![c] = NoRequest]
    /\ UNCHANGED <<now, lastRequest, batches, envVars, aggVars, cliVars>>

\* A second passes.
Tick ==
    /\ gpc # <<>>
    /\ now < MaxTime
    /\ now' = now + 1
    /\ UNCHANGED <<cache, lastRequest, lock, gpc, greq, batches, served, envVars, aggVars, cliVars>>

InitGate ==
    /\ regNo \in RegNos
    /\ cookiesValid = TRUE
    /\ debug = FALSE
    /\ nSems = 0
    /\ attHas = <<>>
    /\ now = 0
    /\ pc = "off"
    /\ data = ZeroData /\ errors = <<>> /\ retErr = NoError /\ calls = <<>>
    /\ fetchLog = <<>> /\ examLog = <<>> /\ attLog = <<>> /\ marksLog = <<>>
    /\ cliPc = "off" /\ cliI = 0 /\ cliLog = <<>> /\ attendanceList = <<>>
    /\ found = FALSE /\ output = <<>>
    /\ LoginIdle /\ CalcIdle /\ WebIdle
    /\ cache = NoCache /\ lastRequest = NeverRequested /\ lock = 0
    /\ gpc = [c \in Callers |-> "idle"]
    /\ greq = [c \in Callers |-> NoRequest]
    /\ batches = <<>>
    /\ served = [c \in Callers |-> NotServed]

NextGate ==
    \/ \E c \in Callers : GateGet(c)
    \/ \E c \in Callers : GateForceRefresh(c)
    \/ \E c \in Callers : GateAcquire(c)
    \/ \E c \in Callers : GateCheck(c)
    \/ \E c \in Callers : GatePace(c)
    \/ \E c \in Callers : GateStore(c)
    \/ Tick

SpecGate == InitGate /\ [][NextGate]_vars

CliIdle ==
    /\ cliPc = "off" /\ cliI = 0 /\ cliLog = <<>> /\ attendanceList = <<>>
    /\ found = FALSE /\ output = <<>>

GateIdle ==
    /\ cache = NoCache /\ lastRequest = NeverRequested /\ lock = 0 /\ gpc = <<>> /\ greq = <<>>
    /\ batches = <<>> /\ served = <<>>

InitAgg ==
    /\ regNo \in RegNos
    /\ cookiesValid \in BOOLEAN
    /\ debug = FALSE
    /\ nSems \in 0..MaxSems
    /\ attHas \in AttendancePatterns(nSems)
    /\ now = 1
    /\ pc = "start"
    /\ data = ZeroData /\ errors = <<>> /\ retErr = NoError /\ calls = <<>>
    /\ fetchLog = <<>> /\ examLog = <<>> /\ attLog = <<>> /\ marksLog = <<>>
    /\ CliIdle /\ GateIdle /\ LoginIdle /\ CalcIdle /\ WebIdle

InitCli ==
    /\ regNo \in RegNos
    /\ cookiesValid \in BOOLEAN
    /\ debug \in BOOLEAN
    /\ nSems \in 0..MaxSems
    /\ attHas = [s \in 1..nSems |-> FALSE]
    /\ now = 1
    /\ pc = "off"
    /\ data = ZeroData /\ errors = <<>> /\ retErr = NoError /\ calls = <<>>
    /\ fetchLog = <<>> /\ examLog = <<>> /\ attLog = <<>> /\ marksLog = <<>>
    /\ cliPc = "start" /\ cliI = 0 /\ cliLog = <<>> /\ attendanceList = <<>>
    /\ found = FALSE /\ output = <<>>
    /\ GateIdle /\ LoginIdle /\ CalcIdle /\ WebIdle

NextCli == GetMarks \/ GetAttendance

SpecCli == InitCli /\ [][NextCli]_vars

NextAgg ==
    \/ BuildAIData
    \/ BuildAIDataMarks
    \/ BuildAIDataAttendance
    \/ BuildAIDataExams
    \/ BuildAIDataTimetable
    \/ BuildAIDataCGPA

SpecAgg == InitAgg /\ [][NextAgg]_vars

\* The aggregator and the commands, for what they have in common.
InitFetch == InitAgg \/ InitCli

NextFetch == NextAgg \/ NextCli

SpecFetch == InitFetch /\ [][NextFetch]_vars

\* Two invocations of the program at once on one stored session: the
\* export (BuildAIData) and a command.
InitConc ==
    /\ regNo \in RegNos
    /\ cookiesValid = TRUE
    /\ debug = FALSE
    /\ nSems = 1
    /\ attHas = [s \in 1..nSems |-> TRUE]
    /\ now = 1
    /\ pc = "start"
    /\ data = ZeroData /\ errors = <<>> /\ retErr = NoError /\ calls = <<>>
    /\ fetchLog = <<>> /\ examLog = <<>> /\ attLog = <<>> /\ marksLog = <<>>
    /\ cliPc = "start" /\ cliI = 0 /\ cliLog = <<>> /\ attendanceList = <<>>
    /\ found = FALSE /\ output = <<>>
    /\ GateIdle /\ LoginIdle /\ CalcIdle /\ WebIdle

SpecConc == InitConc /\ [][NextFetch]_vars

\* The login command, run on a file that holds nothing or an earlier session.
InitLogin ==
    /\ regNo \in RegNos
    /\ cookiesValid = FALSE
    /\ debug \in BOOLEAN
    /\ nSems = 0
    /\ attHas = <<>>
    /\ now = 1
    /\ pc = "off"
    /\ data = ZeroData /\ errors = <<>> /\ retErr = NoError /\ calls = <<>>
    /\ fetchLog = <<>> /\ examLog = <<>> /\ attLog = <<>> /\ marksLog = <<>>
    /\ cliPc = "login" /\ cliI = 0 /\ cliLog = <<>> /\ attendanceList = <<>>
    /\ found = FALSE /\ output = <<>>
    /\ GateIdle
    /\ store \in {EmptyStore,
                   Settings("21BCE0002", "aes(old,k0)", "k0",
                            [CSRF |-> "csrf-old", JSESSIONID |-> "js-old", SERVERID |-> "s1"],
                            "21BCE0002")}
    /\ loginCalls = <<>> /\ loginRuns = 0 /\ writeLog = <<>>
    /\ CalcIdle /\ WebIdle

NextLogin == credCmd

SpecLogin == InitLogin /\ [][NextLogin]_vars

\* calculateAttendance on every pair of counts with 0 <= attended <= total.
InitCalc ==
    /\ regNo \in RegNos
    /\ cookiesValid = FALSE
    /\ debug = FALSE
    /\ nSems = 0
    /\ attHas = <<>>
    /\ now = 1
    /\ pc = "off"
    /\ data = ZeroData /\ errors = <<>> /\ retErr = NoError /\ calls = <<>>
    /\ fetchLog = <<>> /\ examLog = <<>> /\ attLog = <<>> /\ marksLog = <<>>
    /\ cliPc = "calc" /\ cliI = 0 /\ cliLog = <<>> /\ attendanceList = <<>>
    /\ found = FALSE /\ output = <<>>
    /\ GateIdle /\ LoginIdle /\ WebIdle
    /\ argTotal \in 0..MaxTotal
    /\ argAttended \in 0..argTotal
    /\ argClasstype \in {0, 1}
    /\ alert = NoAlert

NextCalc == CalculateAlert

SpecCalc == InitCalc /\ [][NextCalc]_vars

\* The page of the web front-end, opened in a browser.
InitWeb ==
    /\ regNo \in RegNos
    /\ cookiesValid = FALSE
    /\ debug = FALSE
    /\ nSems = 0
    /\ attHas = <<>>
    /\ now = 1
    /\ pc = "off"
    /\ data = ZeroData /\ errors = <<>> /\ retErr = NoError /\ calls = <<>>
    /\ fetchLog = <<>> /\ examLog = <<>> /\ attLog = <<>> /\ marksLog = <<>>
    /\ CliIdle /\ GateIdle /\ LoginIdle /\ CalcIdle
    /\ webPc = "load" /\ systemReady = FALSE /\ statusPc = "idle" /\ statusResp = <<>>
    /\ wizard = WizardHidden /\ genPending = 0 /\ contextResult = ""
    /\ selecting = <<>> /\ subjectBtns = <<>> /\ requests = <<>>

NextWeb ==
    \/ DOMContentLoaded
    \/ checkSystemStatus
    \/ setupLogin
    \/ closeSetup
    \/ generateAIContext
    \/ reload
    \/ handleClick
    \/ showSemesterSelector
    \/ generateStudyGuide

SpecWeb == InitWeb /\ [][NextWeb]_vars

Init == InitAgg \/ InitCli \/ InitGate \/ InitLogin \/ InitCalc \/ InitWeb

Next == NextAgg \/ NextCli \/ NextGate \/ NextLogin \/ NextCalc \/ NextWeb

Spec == Init /\ [][Next]_vars

----------------------------------------------------------------------------
(* Properties *)

\* The slice of the document that belongs to a record kind.
Slice(kind) ==
    CASE kind = "marks"      -> data.Marks
      [] kind = "attendance" -> data.Attendance
      [] kind = "exams"      -> data.Exams
      [] kind = "timetable"  -> data.Timetable
      [] kind = "cgpa"       -> data.CGPATrend

HasDiagnostic(kind) == \E i \in 1..Len(errors) : errors[i].kind = kind

\* C1: BuildAIData attempts the five collectors in the order marks,
\* attendance, exams, timetable, cgpa whatever each of them returns, and the
\* document it returns carries the registration number and the timestamp.
C1_AllCollectorsAttempted ==
    /\ Len(calls) <= Len(Kinds)
    /\ \A i \in 1..Len(calls) : calls[i].kind = Kinds[i]
    /\ pc = "done" =>
         /\ Len(calls) = Len(Kinds)
         /\ data.RegNo = regNo
         /\ data.GeneratedAt = now

C1_Witness ==
    /\ pc = "done"
    /\ calls[1].failed /\ ~calls[2].failed /\ calls[3].failed
    /\ ~calls[4].failed /\ ~calls[5].failed

\* C2: with a valid session, every slice of the returned document is
\* either populated or empty with a diagnostic entry of its kind.
C2_EmptySliceHasDiagnostic ==
    (pc = "done" /\ cookiesValid) =>
        \A k \in 1..Len(Kinds) : Slice(Kinds[k]) # <<>> \/ HasDiagnostic(Kinds[k])

\* The kinds of the failed calls, in call order.
RECURSIVE FailedKinds(_)
FailedKinds(cs) ==
    IF cs = <<>> THEN <<>>
    ELSE (IF Head(cs).failed THEN <<Head(cs).kind>> ELSE <<>>) \o FailedKinds(Tail(cs))

\* What BuildAIData stores of a successful call.
Stored(kind) ==
    IF kind = "cgpa" THEN <<data.CGPA, data.CGPATrend, data.Semester>> ELSE Slice(kind)

\* C3: the returned error is nil exactly when no collector failed; otherwise
\* its message has one entry per failed kind, in the order of the kinds, and
\* the document holds what every successful collector returned.
C3_CombinedError ==
    pc = "done" =>
        /\ (retErr = NoError) <=> (\A i \in 1..Len(calls) : ~calls[i].failed)
        /\ [i \in 1..Len(retErr.parts) |-> retErr.parts[i].kind] = FailedKinds(calls)
        /\ \A i \in 1..Len(calls) : ~calls[i].failed => Stored(calls[i].kind) = calls[i].val

C3_Witness ==
    /\ pc = "done"
    /\ Len(retErr.parts) = 1
    /\ retErr.parts[1].kind = "timetable"
    /\ data.Exams # <<>> /\ data.Marks # <<>>

\* A fallback log is newest-first: iteration i fetched semester n - i + 1,
\* and only the last iteration can have obtained records.
NewestFirst(log, n) ==
    \A i \in 1..Len(log) :
        /\ log[i].sem = n - i + 1
        /\ i < Len(log) => log[i].n = 0

ExamFetches == SelectSeq(fetchLog, LAMBDA f : f.kind = "exams")

\* C4: the fallback searches (exams in the aggregator, attendance in the
\* command) go through the semesters newest-first, fetch nothing after the
\* first semester that yields a record, and return that semester's records.
C4_NewestFirstFallback ==
    /\ NewestFirst(examLog, nSems)
    /\ [i \in 1..Len(ExamFetches) |-> ExamFetches[i].sem]
           = [i \in 1..Len(examLog) |-> examLog[i].sem]
    /\ examLog # <<>> =>
         LET last == examLog[Len(examLog)] IN
         IF last.n > 0 THEN data.Exams = ExamDoc(last.sem, last.n).rows
         ELSE Len(examLog) = nSems /\ data.Exams = <<>>
    /\ NewestFirst(SelectSeq(cliLog, LAMBDA f : f.kind = "attendance"), nSems)
    /\ (cliLog # <<>> /\ cliLog[1].kind = "attendance") =>
         LET last == cliLog[Len(cliLog)] IN
         /\ found <=> last.n > 0
         /\ found =>
              /\ Len(attendanceList) = last.n + 1
              /\ \A k \in 2..Len(attendanceList) : attendanceList[k].sub_name = CourseOf(last.sem)
         /\ ~found => Len(cliLog) = nSems

C4_Witness ==
    /\ pc = "done"
    /\ nSems = 3
    /\ Len(examLog) = 2
    /\ examLog[1].cls = "Ok" /\ examLog[2].n > 0
    /\ data.Exams = ExamDoc(2, 1).rows

\* The diagnostics mention semester s as empty.
MentionsEmptyTerm(s) ==
    \E i \in 1..Len(errors) :
        /\ errors[i].kind = "attendance"
        /\ errors[i].err = "no rows for semester " \o ToString(s)

\* C5: with candidate terms [T3, T2, T1] of which only T1 has attendance
\* rows, the attendance slice is T1's rows and the diagnostics mention T3
\* and T2 as empty.
C5_AttendanceFallback ==
    (/\ pc = "done" /\ cookiesValid /\ nSems = 3
     /\ ~attHas[3] /\ ~attHas[2] /\ attHas[1]) =>
        /\ data.Attendance = AttendanceRecords(AttendanceDoc(1).rows)
        /\ MentionsEmptyTerm(3) /\ MentionsEmptyTerm(2)

\* C6: an exam fetch that finds the session expired is followed by a retry
\* of the same semester (after one re-authentication), not by the next one.
C6_ExpiredRetriesSameTerm ==
    \A i \in 1..Len(examLog) :
        examLog[i].cls = "Expired" =>
            /\ i < Len(examLog)
            /\ examLog[i + 1].sem = examLog[i].sem

\* C7: a fetch that failed in transport or found the session expired is not
\* reported as "no data": not as the marks command's "No Data Found", and
\* not as an empty exam list without an error.
C7_FailuresNotReportedAsNoData ==
    /\ \A i \in 1..Len(cliLog) :
         (cliLog[i].kind = "marks" /\ cliLog[i].cls \in {"Transport", "Expired"}) =>
             \A k \in 1..Len(output) : output[k].msg # "No Data Found"
    /\ (/\ Len(calls) >= 3 /\ examLog # <<>>
        /\ \A i \in 1..Len(examLog) : examLog[i].cls \in {"Transport", "Expired"}) =>
           calls[3].failed

\* C8: a get that finds the memoized document younger than its maxAge
\* returns that document and starts no aggregation pass; a get that finds it
\* older (or finds none) starts exactly one pass and returns its document.
C8_CacheIdempotence ==
    [][\A c \in DOMAIN gpc :
         /\ (gpc[c] = "check" /\ gpc'[c] # "check" /\ ~greq[c].force) =>
               IF cache # NoCache /\ now - cache.at < greq[c].maxAge
               THEN /\ gpc'[c] = "idle"
                    /\ served'[c] = [doc |-> cache.doc, hit |-> TRUE]
                    /\ batches' = batches /\ cache' = cache
               ELSE gpc'[c] = "pace"
         /\ (gpc[c] = "fetch" /\ gpc'[c] = "idle") =>
               /\ Len(batches) = greq[c].seen + 1
               /\ served'[c] = [doc |-> Len(batches), hit |-> FALSE]
               /\ cache'.doc = Len(batches)]_vars

C8_Witness ==
    /\ gpc # <<>>
    /\ served[1] = [doc |-> 1, hit |-> TRUE] /\ served[2] = [doc |-> 1, hit |-> TRUE]
    /\ gpc[1] = "fetch" /\ ~greq[1].force
    /\ Len(batches) = 2

\* C9: consecutive aggregation passes start at least the minimum interval
\* apart; a forced refresh is never answered from the cache, and is paced
\* like any other request.
C9_MinimumInterval ==
    /\ [](\A i \in 2..Len(batches) : batches[i] - batches[i - 1] >= MinRequestInterval)
    /\ [][\A c \in DOMAIN gpc :
            (gpc[c] = "check" /\ greq[c].force /\ gpc'[c] # "check") =>
                gpc'[c] = "pace" /\ served' = served]_vars

C9_Witness ==
    /\ gpc # <<>>
    /\ gpc[2] = "fetch" /\ greq[2].force
    /\ cache.doc = 1 /\ CacheValid(DefaultMaxAge)
    /\ Len(batches) = 2 /\ batches[2] - batches[1] = MinRequestInterval

\* C10: callers that miss the cache pass the gate one at a time, and the
\* number of passes is at most ceil(elapsed / interval) + 1, the time taken
\* from the first pass.
C10_PacingBound ==
    /\ Cardinality({c \in DOMAIN gpc : gpc[c] \in {"check", "pace", "fetch"}}) <= 1
    /\ batches # <<>> =>
         Len(batches) <= CeilDiv(now - batches[1], MinRequestInterval) + 1

C10_Witness ==
    /\ gpc # <<>>
    /\ gpc[1] = "fetch" /\ gpc[2] = "wait"
    /\ ~greq[1].force /\ ~greq[2].force
    /\ Len(batches) = 3 /\ now - batches[1] = 4

\* C11: when the export and a command, running at once, both find the
\* session expired, each expired fetch is followed by a retry of the same
\* request once the session has been renewed.
C11_ExpiredCallersRetry ==
    LET expiredAgg == {i \in 1..Len(examLog) : examLog[i].cls = "Expired"}
        expiredCli == {i \in 1..Len(cliLog) : cliLog[i].cls = "Expired"}
    IN  (/\ pc = "done" /\ cliPc = "done"
         /\ expiredAgg # {} /\ expiredCli # {}) =>
            /\ \A i \in expiredAgg :
                 i < Len(examLog) /\ examLog[i + 1].sem = examLog[i].sem
            /\ \A i \in expiredCli :
                 i < Len(cliLog) /\ cliLog[i + 1].sem = cliLog[i].sem

\* The term the document records for the records of a kind: VTOPAIData has
\* the one Semester label, set from the grade history (lines 60-62).
TermRecorded(kind) == data.Semester

\* The semester the exams of the document were fetched from, 0 if none.
ExamTerm ==
    IF examLog # <<>> /\ examLog[Len(examLog)].n > 0 THEN examLog[Len(examLog)].sem ELSE 0

\* C12: when the exams of the document come from an older semester than its
\* marks, the document records different terms for the two kinds.
C12_PerKindTerm ==
    (/\ pc = "done"
     /\ ~calls[1].failed /\ data.Marks # <<>>
     /\ ExamTerm > 0 /\ ExamTerm < Latest) =>
        TermRecorded("exams") # TermRecorded("marks")

\* The counts behind the alert of a row of the attendance list: those of the
\* "Classes Attended" cell, halved for the two lab course types.
AlertCounts(row) ==
    LET a == AtoiCount(row.classes_attended[1]).v
        t == AtoiCount(row.classes_attended[2]).v
    IN  IF row.sub_type \in {"Lab Only", "Embedded Lab"}
        THEN [attended |-> a \div 2, total |-> t \div 2, unit |-> "lab(s)"]
        ELSE [attended |-> a, total |-> t, unit |-> "class(es)"]

\* C13: the alert of a "Lab Only" or "Embedded Lab" row is the one of the
\* halved counts (20/40 gives that of 10/20), the alert of any other row the
\* one of the raw counts: its colour, its number of classes and its unit.
C13_LabCountsHalved ==
    \A k \in 2..Len(attendanceList) :
        LET row   == attendanceList[k]
            c     == AlertCounts(row)
            short == TargetAttendance * c.total - 10000 * c.attended
            n     == row.alert.n
        IN  /\ row.alert.unit = c.unit
            /\ (row.alert.color = "red") <=> (short > 0)
            /\ row.alert.color = "red" =>
                 /\ n * (10000 - TargetAttendance) >= short
                 /\ (n - 1) * (10000 - TargetAttendance) < short
            /\ row.alert.color # "red" =>
                 /\ row.alert.color = "green"
                 /\ n * TargetAttendance <= 0 - short
                 /\ (n + 1) * TargetAttendance > 0 - short

C13_Witness ==
    /\ found
    /\ \E k \in 2..Len(attendanceList) :
         /\ attendanceList[k].sub_type = "Lab Only"
         /\ attendanceList[k].classes_attended = <<"20", "40">>
         /\ attendanceList[k].alert.color = "red" /\ attendanceList[k].alert.n = 19
    /\ \E k \in 2..Len(attendanceList) :
         /\ attendanceList[k].sub_type = "Theory Only"
         /\ attendanceList[k].classes_attended = <<"30", "40">>
         /\ attendanceList[k].alert.color = "green"

\* C14: every row of a fetched attendance table is kept, whatever its cells
\* hold: the attendance command lists as many rows as the table has, and the
\* export has one record per row.
C14_UnparsedCellsKeepRow ==
    /\ \A i \in 1..Len(cliLog) :
         cliLog[i].kind = "attendance" => cliLog[i].n = cliLog[i].rows
    /\ (Len(calls) >= 2 /\ ~calls[2].failed) =>
         Len(calls[2].val) = attLog[1].rows

\* C15: a page without the attendance table does not give the export an
\* empty attendance slice without a diagnostic of that kind.
C15_MissingTableIsDiagnosed ==
    (/\ Len(calls) >= 2 /\ attLog # <<>>
     /\ ~attLog[1].hasTable) =>
        /\ calls[2].failed
        /\ HasDiagnostic("attendance")

\* C16: a run of the login command calls the login at most once; it changes
\* the stored session only when that login gave a registration number, and
\* then to the user name, encrypted password, key, cookie triplet and
\* registration number of that login.
C16_StoreWrittenAfterLogin ==
    /\ [](Len(loginCalls) <= 1)
    /\ [][store' # store =>
            /\ Len(loginCalls') = 1
            /\ loginCalls'[1].regNo # ""
            /\ store' = [VTOP_USERNAME |-> Quoted(loginCalls'[1].username),
                         PASSWORD |-> Quoted(loginCalls'[1].encrypted),
                         KEY |-> Quoted(loginCalls'[1].key),
                         CSRF |-> Quoted(loginCalls'[1].cookies.CSRF),
                         JSESSIONID |-> Quoted(loginCalls'[1].cookies.JSESSIONID),
                         SERVERID |-> Quoted(loginCalls'[1].cookies.SERVERID),
                         REGNO |-> Quoted(loginCalls'[1].regNo)]]_vars

C16_Witness ==
    /\ loginRuns = 2
    /\ store.REGNO = Quoted("21BCE0001")
    /\ Len(loginCalls) = 1
    /\ loginCalls[1].regNo = "" /\ loginCalls[1].cookies.JSESSIONID # ""

\* C17: a row of the attendance list carries the red "Attend N more" alert
\* exactly when its attendance (after the halving of lab counts) is below
\* 75%, and the green "Can miss N" alert otherwise.
C17_RedBelowThreshold ==
    \A k \in 2..Len(attendanceList) :
        LET row == attendanceList[k]
            c   == AlertCounts(row)
        IN  IF 100 * c.attended < 75 * c.total
            THEN row.alert.color = "red" /\ row.alert.text = "Attend more"
            ELSE row.alert.color = "green" /\ row.alert.text = "Can miss"

\* A component table without a component row: all it has are heading rows.
NoComponentRows(table) ==
    \A k \in 1..Len(table) : table[k].first \in {"Sl.No.", "Index", ""}

\* C18: a course of the marks page whose component table has no component
\* row is in the marks slice with no components and zero totals; the slice
\* has one summary per course that has a table, and no marks diagnostic.
C18_EmptyComponentTable ==
    (Len(calls) >= 1 /\ marksLog # <<>>) =>
        LET page == marksLog[1] IN
        /\ ~calls[1].failed /\ ~HasDiagnostic("marks")
        /\ Len(data.Marks)
             = Cardinality({idx \in 1..Len(page.courses) : idx <= Len(page.tables)})
        /\ \A idx \in 1..Len(page.courses) :
             (idx <= Len(page.tables) /\ NoComponentRows(page.tables[idx])) =>
                 \E k \in 1..Len(data.Marks) :
                     data.Marks[k] = [CourseCode |-> page.courses[idx], Components |-> <<>>,
                                      TotalScored |-> 0, TotalWeight |-> 0]

C18_Witness ==
    /\ pc = "done"
    /\ Len(data.Marks) = 2
    /\ data.Marks[1].CourseCode = "CSE1001" /\ data.Marks[1].Components = <<>>
    /\ data.Marks[2].CourseCode = "CSE1002" /\ Len(data.Marks[2].Components) = 1
    /\ ~HasDiagnostic("marks")

\* The semesters the attendance command went past because their page,
\* fetched without an error, had no attendance rows.
SkippedEmptyTerms ==
    {cliLog[i].sem : i \in {j \in 1..Len(cliLog) - 1 :
        /\ cliLog[j].kind = "attendance" /\ cliLog[j].cls = "Ok" /\ cliLog[j].rows = 0}}

\* C19: when the attendance command found data in an older semester, it has
\* printed no failure message for a newer semester it skipped for want of
\* data: nothing at all about it, or, when debugging, the note that it goes
\* on to the previous semester.
C19_SkippedTermsNotReported ==
    found =>
        \A k \in 1..Len(output) :
            output[k].sem \in SkippedEmptyTerms =>
                /\ debug
                /\ output[k].msg = "No attendance data found. Trying previous semester."


\* What the document holds for a kind before its collector has run.
Unset(kind) == IF kind = "cgpa" THEN <<0, <<>>, "">> ELSE <<>>

\* C20: the fields of a kind whose collector failed stay unset (for the
\* grade history: CGPA, trend and semester label together), and a step of
\* BuildAIData changes the fields of no kind but the one it collects.
C20_FailureIsLocal ==
    /\ [](\A i \in 1..Len(calls) :
            calls[i].failed => Stored(calls[i].kind) = Unset(calls[i].kind))
    /\ [][\A k \in 1..Len(Kinds) :
            Kinds[k] # pc => Stored(Kinds[k])' = Stored(Kinds[k])]_vars

C20_Witness ==
    /\ pc = "done"
    /\ data.Marks # <<>> /\ data.Attendance # <<>> /\ data.Exams # <<>>
    /\ calls[4].failed /\ data.Timetable = <<>>
    /\ calls[5].failed /\ data.CGPA = 0 /\ data.CGPATrend = <<>> /\ data.Semester = ""


\* C21: the exam search fetches at most one page per known semester and no
\* semester twice; a fetch that failed in transport is followed by the fetch
\* of the next older semester, or is that of the oldest one; and the search
\* has returned once the oldest semester has been tried.
C21_ExamSearchBounded ==
    /\ Len(ExamFetches) <= nSems
    /\ \A i, j \in 1..Len(ExamFetches) :
         i # j => ExamFetches[i].sem # ExamFetches[j].sem
    /\ \A i \in 1..Len(examLog) :
         examLog[i].cls = "Transport" =>
             IF i < Len(examLog) THEN examLog[i + 1].sem = examLog[i].sem - 1
             ELSE examLog[i].sem = 1
    /\ (examLog # <<>> /\ examLog[Len(examLog)].sem = 1) =>
         /\ Len(calls) >= 3 /\ calls[3].kind = "exams"
         /\ pc \in {"timetable", "cgpa", "done"}

C21_Witness ==
    /\ pc = "done"
    /\ nSems = 3
    /\ Len(examLog) = 3
    /\ \A i \in 1..3 : examLog[i].cls = "Transport"
    /\ ~calls[3].failed /\ data.Exams = <<>>


\* The sum of a field over the components of a summary.
RECURSIVE SumOver(_, _)
SumOver(components, field) ==
    IF components = <<>> THEN 0
    ELSE Head(components)[field] + SumOver(Tail(components), field)

\* C22: in every summary of the marks slice, TotalScored is the sum of the
\* components' WeightageMark and TotalWeight the sum of their Weightage.
C22_TotalsAreSums ==
    \A k \in 1..Len(data.Marks) :
        /\ data.Marks[k].TotalScored = SumOver(data.Marks[k].Components, "WeightageMark")
        /\ data.Marks[k].TotalWeight = SumOver(data.Marks[k].Components, "Weightage")

\* C23: the current CGPA and the semester label of the document are those
\* of the last entry of its trend.
C23_CurrentIsLatestSnapshot ==
    (pc = "done" /\ data.CGPATrend # <<>>) =>
        LET last == data.CGPATrend[Len(data.CGPATrend)] IN
        /\ data.CGPA = last.CGPA
        /\ data.Semester = last.Semester

\* C24: for 0 <= attended <= total, the alert is "Attend more" exactly when
\* attended/total is below the target, and its number is then the least
\* non-negative x with (attended + x)/(total + x) at or above the target.
C24_AttendMoreIsLeast ==
    alert # NoAlert =>
        /\ alert.color = "red" <=> 10000 * argAttended < TargetAttendance * argTotal
        /\ alert.color = "red" =>
             /\ alert.text = "Attend more"
             /\ alert.n >= 0
             /\ 10000 * (argAttended + alert.n) >= TargetAttendance * (argTotal + alert.n)
             /\ \A x \in 0..(alert.n - 1) :
                  10000 * (argAttended + x) < TargetAttendance * (argTotal + x)

C24_Witness ==
    /\ argAttended = 5 /\ argTotal = 10
    /\ alert.color = "red" /\ alert.text = "Attend more" /\ alert.n = 10

\* C25: for 0 <= attended <= total at or above the target, the alert is
\* "Can miss" and its number is the largest non-negative m with
\* attended/(total + m) at or above the target.
C25_CanMissIsLargest ==
    (alert # NoAlert /\ alert.color = "green") =>
        /\ alert.text = "Can miss"
        /\ 10000 * argAttended >= TargetAttendance * argTotal
        /\ alert.n >= 0
        /\ 10000 * argAttended >= TargetAttendance * (argTotal + alert.n)
        /\ 10000 * argAttended < TargetAttendance * (argTotal + alert.n + 1)

C25_Witness ==
    /\ argAttended = 10 /\ argTotal = 10
    /\ alert.color = "green" /\ alert.text = "Can miss" /\ alert.n = 3

\* C26: when the session fails ValidateLogin, no collector sends a request,
\* and the document BuildAIData returns has its five slices empty and one
\* "invalid login" entry per kind, in the order of the kinds.
C26_InvalidSessionFetchesNothing ==
    ~cookiesValid =>
        /\ fetchLog = <<>> /\ examLog = <<>> /\ attLog = <<>> /\ marksLog = <<>>
        /\ pc = "done" =>
             /\ data.Marks = <<>> /\ data.Attendance = <<>> /\ data.Exams = <<>>
             /\ data.Timetable = <<>> /\ data.CGPATrend = <<>>
             /\ errors = [i \in 1..Len(Kinds) |-> ErrEntry(Kinds[i], "invalid login")]
             /\ retErr = JoinErrors(errors)

C26_Witness ==
    /\ ~cookiesValid /\ pc = "done" /\ Len(calls) = 5
    /\ Len(errors) = 5 /\ errors[5] = ErrEntry("cgpa", "invalid login")

\* C27: the login command prints "Credentials and session saved
\* successfully." only in a run whose write of the configuration file
\* succeeded, with debug on or off.
C27_SuccessOnlyAfterWrite ==
    (\E i \in 1..Len(output) :
        output[i] = Out("Credentials and session saved successfully.", 0))
        => writeLog = <<TRUE>>

\* C28: a run in which encrypting the password failed contacts no portal and
\* leaves the store as it was, with debug on or off, and the store never
\* holds an empty password blob.
C28_EncryptionFailureStops ==
    /\ \A i \in 1..Len(loginCalls) : loginCalls[i].encErr = Nil
    /\ store.PASSWORD # Quoted("")

\* Whether an answer of /status reported the system ready.
ReportedReady(resps) ==
    \E i \in 1..Len(resps) :
        resps[i].ready \/ (resps[i].credentials_exist /\ resps[i].ai_context_exists)

\* C29: every feature request comes from a click on a card that found
\* systemReady true, and systemReady turns true only in the step that
\* receives an answer of /status reporting the system ready or the answer of
\* a successful AI-context generation; closing the wizard, a failed login
\* and a failed generation leave it as it was.
C29_RequestsNeedReadySystem ==
    /\ [](\A i \in 1..Len(requests) :
            /\ requests[i].gate = TRUE
            /\ requests[i].endpoint \in {"/execute", "/ai-features", "/gemini-features"})
    /\ [][(~systemReady /\ systemReady') =>
            \/ /\ statusPc = "pending" /\ statusPc' = "done"
               /\ ReportedReady(statusResp')
            \/ /\ genPending' = genPending - 1
               /\ contextResult' = "ok"]_vars
    /\ [][(wizard.shown /\ ~wizard'.shown /\ webPc' = webPc) => systemReady' = systemReady]_vars
    /\ [][(genPending' = genPending - 1 /\ contextResult' = "failed")
            => systemReady' = systemReady]_vars

C29_Witness ==
    /\ requests # <<>>
    /\ statusResp = <<[ready |-> FALSE, credentials_exist |-> FALSE,
                      ai_context_exists |-> FALSE]>>
    /\ contextResult = "ok" /\ systemReady
    /\ ~wizard.shown

\* C30: a subject button of the study guide is green when the CAT1
\* percentage is above 70, yellow from 50 to 70 and red below 50.
C30_SubjectColours ==
    \A i \in 1..Len(subjectBtns) :
        subjectBtns[i].status =
            IF subjectBtns[i].cat1_pct > 70 THEN "green"
            ELSE IF subjectBtns[i].cat1_pct >= 50 THEN "yellow"
            ELSE "red"

====
